---- MODULE Spec2Model ----
(***************************************************************************)
(* Booking core of the gaming-cafe platform: one GameSlot of one Game, its *)
(* SlotAvailability row, the Booking rows of that slot and the customer    *)
(* requests that go through views.hybrid_booking_create and                *)
(* BookingService.  Time is in minutes.                                    *)
(*                                                                         *)
(* create_booking holds the row lock of the slot's SlotAvailability from   *)
(* handle_booking_conflict's select_for_update until its transaction       *)
(* commits, so it is modelled in steps.  The handlers that write the       *)
(* SlotAvailability row without select_for_update are one step each and    *)
(* wait while the row lock is held (their UPDATE blocks on it).            *)
(* price_per_spot, platform_fee and total_amount are not modelled, and no  *)
(* booking is checked in (is_verified stays False).                        *)
(***************************************************************************)
EXTENDS Integers, Sequences, FiniteSets, Bags, TLC

\* ---- bounds of the model ------------------------------------------------
MaxCapacity == 2
MaxBookings == 2
MaxRequests == 2
PrivatePrice == 5
SharedPrice == 2
SlotStart == 10
SlotEnd == 15
MaxTime == 15
TickMinutes == 5
\* Slot generation: a day of DayLength time units, dates 0..MaxDate.
DayLength == 4
MaxDuration == 3
MaxDate == 2
MaxCallers == 2
MaxCalls == 2
DaysToMaintain == 1

\* ---- program constants --------------------------------------------------
ReservationMinutes == 5

Requests == 1..MaxRequests
NoRequest == 0
NoStatus == "NONE"

VARIABLES game, availability, bookings, now, req, lock, race,
          schedule, slots, availabilities, gen, calls,
          slot_bookings, sweep, txn

genVars == <<schedule, slots, availabilities, gen, calls, slot_bookings>>

\* The batch sweep and the split read-modify-write of the SlotAvailability
\* row are followed in specifications of their own.
sideVars == <<genVars, sweep, txn>>

vars == <<game, availability, bookings, now, req, lock, race, sideVars>>

Max(a, b) == IF a >= b THEN a ELSE b
Min(a, b) == IF a <= b THEN a ELSE b

\* ---- SlotAvailability (models.py) ---------------------------------------
available_spots(av) ==
    IF ~av.is_private_booked THEN av.total_capacity - av.booked_spots ELSE 0

\* A variant that lets a PRIVATE booking onto a slot with booked spots.
can_book_private_always(av) == TRUE

can_book_private(av) == av.booked_spots = 0

can_book_shared(av) == ~av.is_private_booked /\ available_spots(av) > 0

\* A variant that keeps counting a reservation after its window.
IsPendingReservation(b, t) == b.status = "PENDING"

IsLiveReservation(b, t) ==
    b.status = "PENDING" /\ b.reservation_expires_at > t

\* The Booking rows of the slot are a bag of records: rows that agree in
\* every modelled field are interchangeable.
Rows(bks) == BagToSet(bks)

RECURSIVE SumLiveSpots(_, _, _)
SumLiveSpots(bks, t, S) ==
    IF S = {} THEN 0
    ELSE LET b == CHOOSE x \in S : TRUE
         IN SumLiveSpots(bks, t, S \ {b})
            + (IF IsLiveReservation(b, t)
               THEN CopiesIn(b, bks) * b.spots_booked ELSE 0)

get_reserved_spots_count(bks, t) == SumLiveSpots(bks, t, Rows(bks))

get_truly_available_spots(av, bks, t) ==
    Max(0, available_spots(av) - get_reserved_spots_count(bks, t))

\* ---- Booking.update_slot_availability (models.py) -----------------------
\* A variant that releases the spots of a booking whatever its old status.
update_slot_availability_any_old(av, b, old_status) ==
    IF b.status \in {"CONFIRMED", "IN_PROGRESS"} THEN
        IF b.booking_type = "PRIVATE"
        THEN [av EXCEPT !.is_private_booked = TRUE,
                        !.booked_spots = av.total_capacity]
        ELSE IF old_status \in {"PENDING", NoStatus}
             THEN [av EXCEPT !.booked_spots = @ + b.spots_booked]
             ELSE av
    ELSE IF b.status = "PENDING" THEN av
    ELSE IF b.status \in {"CANCELLED", "NO_SHOW", "EXPIRED"} THEN
        IF b.booking_type = "PRIVATE"
        THEN [av EXCEPT !.is_private_booked = FALSE, !.booked_spots = 0]
        ELSE [av EXCEPT !.booked_spots = Max(0, @ - b.spots_booked)]
    ELSE av

\* Spots are added on the way into CONFIRMED from PENDING and released
\* only by a booking that was CONFIRMED or IN_PROGRESS.
update_slot_availability(av, b, old_status) ==
    IF b.status \in {"CONFIRMED", "IN_PROGRESS"} THEN
        IF b.booking_type = "PRIVATE"
        THEN [av EXCEPT !.is_private_booked = TRUE,
                        !.booked_spots = av.total_capacity]
        ELSE IF old_status \in {"PENDING", NoStatus}
             THEN [av EXCEPT !.booked_spots = @ + b.spots_booked]
             ELSE av
    ELSE IF b.status = "PENDING" THEN av
    ELSE IF b.status \in {"CANCELLED", "NO_SHOW", "EXPIRED"} THEN
        IF old_status \in {"CONFIRMED", "IN_PROGRESS"} THEN
            IF b.booking_type = "PRIVATE"
            THEN [av EXCEPT !.is_private_booked = FALSE, !.booked_spots = 0]
            ELSE [av EXCEPT !.booked_spots = Max(0, @ - b.spots_booked)]
        ELSE av
    ELSE av

\* ---- post_save receiver auto_update_booking_status (signals.py) ---------
\* A variant that leaves a CONFIRMED booking alone once its slot is over.
signal_without_no_show(b, t) ==
    IF b.status = "PENDING" /\ t >= b.reservation_expires_at
       /\ ~b.is_reservation_expired
    THEN "EXPIRED"
    ELSE IF b.status = "CONFIRMED" /\ SlotStart <= t /\ t < SlotEnd
    THEN "IN_PROGRESS"
    ELSE IF b.status = "IN_PROGRESS" /\ t >= SlotEnd
    THEN (IF b.is_verified THEN "COMPLETED" ELSE "NO_SHOW")
    ELSE b.status

\* The receiver and booking_service.auto_update_booking_status test the
\* same four conditions.
signal_new_status(b, t) ==
    IF b.status = "PENDING" /\ t >= b.reservation_expires_at
       /\ ~b.is_reservation_expired
    THEN "EXPIRED"
    ELSE IF b.status = "CONFIRMED" /\ SlotStart <= t /\ t < SlotEnd
    THEN "IN_PROGRESS"
    ELSE IF b.status = "IN_PROGRESS" /\ t >= SlotEnd
    THEN (IF b.is_verified THEN "COMPLETED" ELSE "NO_SHOW")
    ELSE IF b.status = "CONFIRMED" /\ t >= SlotEnd /\ ~b.is_verified
    THEN "NO_SHOW"
    ELSE b.status

\* ---- Booking.save of an existing row, with its receivers ----------------
\* nb is the instance being saved over the row b.
Replace(bks, b, nb) == (bks (-) SetToBag({b})) (+) SetToBag({nb})

save(bks, av, b, nb, t) ==
    LET old_status == b.status
        changed == old_status # nb.status
        av1 == IF changed THEN update_slot_availability(av, nb, old_status)
               ELSE av
        s2 == signal_new_status(nb, t)
        auto == s2 # nb.status
        nb2 == IF auto
               THEN [nb EXCEPT !.status = s2,
                               !.is_reservation_expired =
                                   (@ \/ s2 = "EXPIRED")]
               ELSE nb
        av2 == IF auto THEN update_slot_availability(av1, nb2, nb.status)
               ELSE av1
    IN [bookings |-> Replace(bks, b, nb2), availability |-> av2, row |-> nb2]

Unsaved(bks, av, b) == [bookings |-> bks, availability |-> av, row |-> b]

\* ---- Booking.check_and_expire_reservation (models.py) -------------------
check_and_expire_reservation(bks, av, b, t) ==
    IF b.status # "PENDING" THEN Unsaved(bks, av, b)
    ELSE IF t >= b.reservation_expires_at
    THEN save(bks, av, b,
              [b EXCEPT !.status = "EXPIRED",
                        !.is_reservation_expired = TRUE], t)
    ELSE Unsaved(bks, av, b)

\* ---- BookingService.expire_old_reservations -----------------------------
ExpiredPending(bks, t) ==
    {b \in Rows(bks) : b.status = "PENDING" /\ b.reservation_expires_at <= t}

RECURSIVE expire_old_reservations(_, _, _)
expire_old_reservations(bks, av, t) ==
    IF ExpiredPending(bks, t) = {} THEN [bookings |-> bks, availability |-> av]
    ELSE LET b == CHOOSE x \in ExpiredPending(bks, t) : TRUE
             s == check_and_expire_reservation(bks, av, b, t)
         IN expire_old_reservations(s.bookings, s.availability, t)

\* ---- BookingService.get_booking_type_restrictions -----------------------
has_pending(bks, t, ty) ==
    \E b \in Rows(bks) : IsLiveReservation(b, t) /\ b.booking_type = ty

get_booking_type_restrictions(av, bks, t) ==
    LET has_pending_private == has_pending(bks, t, "PRIVATE")
        has_pending_shared == has_pending(bks, t, "SHARED")
    IN [can_book_private |-> can_book_private(av) /\ ~has_pending_private
                             /\ ~has_pending_shared,
        can_book_shared |-> can_book_shared(av) /\ ~has_pending_private,
        available_spots |-> get_truly_available_spots(av, bks, t),
        booked_spots |-> av.booked_spots,
        reserved_spots |-> get_reserved_spots_count(bks, t)]

\* ---- BookingService.get_booking_options ---------------------------------
\* The options computed on the rows left by expire_old_reservations.
get_booking_options(g, av, bks, t) ==
    LET r == get_booking_type_restrictions(av, bks, t)
    IN [private_offered |-> g.booking_type \in {"SINGLE", "HYBRID"},
        private_available |-> r.can_book_private,
        shared_offered |-> g.booking_type = "HYBRID",
        shared_available |-> r.can_book_shared,
        available_spots |-> r.available_spots,
        max_spots_per_booking |-> Min(r.available_spots, g.capacity)]

\* ---- BookingService.validate_booking_type_lock --------------------------
validate_booking_type_lock(av, ty) ==
    IF ty = "PRIVATE" /\ av.booked_spots > 0 /\ ~av.is_private_booked
    THEN "CannotBookPrivate"
    ELSE IF ty = "SHARED" /\ av.is_private_booked
    THEN "CannotBookShared"
    ELSE "ok"

\* ---- BookingService.handle_booking_conflict -----------------------------
handle_booking_conflict(av, ty, n) ==
    IF ty = "PRIVATE" /\ ~can_book_private(av) THEN "NoLongerPrivate"
    ELSE IF ty = "SHARED" /\ ~can_book_shared(av) THEN "NoLongerShared"
    ELSE IF ty = "SHARED" /\ n > available_spots(av) THEN "OnlySpotsRemaining"
    ELSE "ok"

\* ---- BookingService.create_booking, validation under the row lock -------
\* err is "ok" or the ValidationError raised; the other fields are the
\* locals booking_type, spots_booked and total_price.
Rejected(e) == [err |-> e, booking_type |-> "NONE", spots_booked |-> 0,
                total_price |-> 0]

\* A variant without the conversion.
auto_convert_never(g, av, n) == FALSE

\* A SHARED request for all the spots of an empty slot becomes PRIVATE.
auto_convert_to_private(g, av, n) == n = g.capacity /\ av.booked_spots = 0

validate_booking_request(g, av, bks, t, ty, n) ==
    IF ty = "PRIVATE" THEN
        IF ~can_book_private(av)
        THEN (IF av.booked_spots > 0 THEN Rejected("PrivateSpotsJustBooked")
              ELSE Rejected("PrivateNotAvailable"))
        ELSE IF g.booking_type \notin {"SINGLE", "HYBRID"}
        THEN Rejected("NoPrivateBookings")
        ELSE [err |-> "ok", booking_type |-> "PRIVATE",
              spots_booked |-> g.capacity, total_price |-> g.private_price]
    ELSE IF ty = "SHARED" THEN
        IF g.booking_type # "HYBRID" THEN Rejected("NoSharedBookings")
        ELSE IF ~can_book_shared(av) THEN Rejected("SharedJustBookedPrivately")
        ELSE LET reserved_spots == get_reserved_spots_count(bks, t)
                 truly_available == available_spots(av) - reserved_spots
             IN IF n > truly_available THEN
                    IF truly_available > 0
                    THEN (IF reserved_spots > 0
                          THEN Rejected("OnlySomeSpotsReserved")
                          ELSE Rejected("OnlySomeSpotsBooked"))
                    ELSE (IF reserved_spots > 0
                          THEN Rejected("AllSpotsReserved")
                          ELSE Rejected("FullyBooked"))
                ELSE IF n < 1 THEN Rejected("AtLeastOneSpot")
                ELSE IF auto_convert_to_private(g, av, n)
                THEN [err |-> "ok", booking_type |-> "PRIVATE",
                      spots_booked |-> g.capacity,
                      total_price |-> g.private_price]
                ELSE [err |-> "ok", booking_type |-> "SHARED",
                      spots_booked |-> n,
                      total_price |-> g.shared_price * n]
    ELSE Rejected("InvalidBookingType")

\* The four messages of create_booking that report too few spots, and the
\* one of handle_booking_conflict.
InsufficientSeats == {"OnlySomeSpotsReserved", "OnlySomeSpotsBooked",
                      "AllSpotsReserved", "FullyBooked", "OnlySpotsRemaining"}

\* ---- requests ----------------------------------------------------------
\* A request holds the arguments of create_booking and, under the row
\* lock, its locals booking_type, spots_booked and total_price.
IdleRequest == [pc |-> "idle", booking_type |-> "NONE", spots_requested |-> 0,
                local_type |-> "NONE", spots_booked |-> 0, total_price |-> 0]

InFlight == {p \in Requests : req[p].pc # "idle"}

\* A variant in which select_for_update takes no lock.
RowLockNotTaken == TRUE

\* select_for_update on the SlotAvailability row waits for the holder.
RowLockFree == lock = NoRequest

\* The race of concurrent one-spot SHARED requests for the last spot: who
\* takes part and how each call ended.  Any other step closes it.
NoRace == << >>

RaceResult(p, result) ==
    IF p \in DOMAIN race THEN [race EXCEPT ![p] = result] ELSE NoRace

RaceKept(p) == IF p \in DOMAIN race THEN race ELSE NoRace

\* The callers of the slot generator and the locals of one call; no call
\* runs while the bookings of the slot are followed.
Dates == 0..MaxDate
Callers == 1..MaxCallers

IdleCaller == [pc |-> "idle", start_date |-> 0, end_date |-> 0,
               current_date |-> 0, slots_to_create |-> << >>, index |-> 0,
               created |-> 0, slots_created |-> 0, errors |-> FALSE,
               repeat |-> FALSE]

\* auto_update_bookings_status at rest, and a request that is not inside
\* Booking.update_slot_availability.
IdleSweep == [pc |-> "idle", todo |-> {}]

IdleTxn == [pc |-> "idle", id |-> 0, old_status |-> "NONE",
            booked_spots |-> 0, is_private_booked |-> FALSE]

TypeOK ==
    /\ game.capacity \in 1..MaxCapacity
    /\ availability.total_capacity = game.capacity
    /\ availability.booked_spots \in Int
    /\ availability.is_private_booked \in BOOLEAN
    /\ BagCardinality(bookings) <= MaxBookings
    /\ now \in 0..MaxTime
    /\ lock \in Requests \cup {NoRequest}
    /\ DOMAIN race \subseteq Requests

Init ==
    /\ game \in { [capacity |-> c, booking_type |-> bt,
                   private_price |-> PrivatePrice,
                   shared_price |-> IF bt = "HYBRID" THEN SharedPrice ELSE 0] :
                  c \in 1..MaxCapacity, bt \in {"SINGLE", "HYBRID"} }
    /\ availability = [total_capacity |-> game.capacity, booked_spots |-> 0,
                       is_private_booked |-> FALSE]
    /\ bookings = EmptyBag
    /\ now = 0
    /\ req = [p \in Requests |-> IdleRequest]
    /\ lock = NoRequest
    /\ race = NoRace
    /\ schedule = [opening_time |-> 0, closing_time |-> 1,
                   slot_duration_minutes |-> 1, is_active |-> TRUE,
                   available_days |-> Dates]
    /\ slots = EmptyBag
    /\ availabilities = EmptyBag
    /\ gen = [c \in Callers |-> IdleCaller]
    /\ calls = 0
    /\ slot_bookings = {}
    /\ sweep = IdleSweep
    /\ txn = [p \in Requests |-> IdleTxn]

\* ---- views.hybrid_booking_create and create_booking up to the row lock --
\* The requests already inside create_booking and not yet committed that
\* ask for one SHARED spot.
Racers(p) ==
    {q \in Requests \ {p} : /\ req[q].pc \in {"waiting", "locked"}
                            /\ req[q].booking_type = "SHARED"
                            /\ req[q].spots_requested = 1}

OpensRace(p, ty, n, av, bks) ==
    /\ ty = "SHARED" /\ n = 1
    /\ get_truly_available_spots(av, bks, now) = 1
    /\ Racers(p) # {}

\* The view offers the option (get_booking_options, which first expires
\* the old reservations), then create_booking checks the slot's start and
\* validate_booking_type_lock and goes on to wait for the row lock.
hybrid_booking_create(p, ty, n) ==
    /\ req[p].pc = "idle"
    /\ BagCardinality(bookings) + Cardinality(InFlight) < MaxBookings
    /\ RowLockFree \/ ExpiredPending(bookings, now) = {}
    /\ LET s == expire_old_reservations(bookings, availability, now)
           o == get_booking_options(game, s.availability, s.bookings, now)
           offered == IF ty = "PRIVATE"
                      THEN o.private_offered /\ o.private_available
                      ELSE o.shared_offered /\ o.shared_available
           e == IF ~offered THEN "OptionNotAvailable"
                ELSE IF ty = "SHARED" /\ n > o.max_spots_per_booking
                THEN "TooManySpots"
                ELSE IF SlotStart <= now THEN "PastSlot"
                ELSE validate_booking_type_lock(s.availability, ty)
       IN /\ bookings' = s.bookings
          /\ availability' = s.availability
          /\ req' = IF e = "ok"
                    THEN [req EXCEPT ![p] =
                            [IdleRequest EXCEPT !.pc = "waiting",
                                                !.booking_type = ty,
                                                !.spots_requested = n]]
                    ELSE req
          /\ race' = IF e = "ok"
                        /\ OpensRace(p, ty, n, s.availability, s.bookings)
                     THEN [q \in Racers(p) \cup {p} |-> "running"]
                     ELSE NoRace
    /\ UNCHANGED <<game, now, lock>>

Failed(p, e) ==
    /\ req' = [req EXCEPT ![p] = IdleRequest]
    /\ race' = RaceResult(p, e)

\* ---- create_booking: select_for_update and validation -------------------
create_booking_lock(p) ==
    /\ req[p].pc = "waiting"
    /\ RowLockFree
    /\ LET ty == req[p].booking_type
           n == req[p].spots_requested
           c == handle_booking_conflict(availability, ty, n)
           v == IF c # "ok" THEN Rejected(c)
                ELSE validate_booking_request(game, availability, bookings,
                                              now, ty, n)
       IN IF v.err = "ok"
          THEN /\ req' = [req EXCEPT ![p].pc = "locked",
                                     ![p].local_type = v.booking_type,
                                     ![p].spots_booked = v.spots_booked,
                                     ![p].total_price = v.total_price]
               /\ lock' = p
               /\ race' = RaceKept(p)
          ELSE /\ Failed(p, v.err)
               /\ lock' = lock
    /\ UNCHANGED <<game, availability, bookings, now>>

\* ---- create_booking: Booking.objects.create and commit ------------------
create_booking_commit(p) ==
    /\ req[p].pc = "locked"
    /\ LET b == [booking_type |-> req[p].local_type,
                 spots_booked |-> req[p].spots_booked,
                 subtotal |-> req[p].total_price,
                 status |-> "PENDING",
                 payment_status |-> "",
                 reservation_expires_at |-> now + ReservationMinutes,
                 is_reservation_expired |-> FALSE,
                 is_verified |-> FALSE]
       IN /\ bookings' = bookings (+) SetToBag({b})
          /\ availability' = update_slot_availability(availability, b, NoStatus)
    /\ req' = [req EXCEPT ![p] = IdleRequest]
    /\ lock' = IF lock = p THEN NoRequest ELSE lock
    /\ race' = RaceResult(p, "ok")
    /\ UNCHANGED <<game, now>>

\* ---- BookingService.confirm_booking_payment -----------------------------
\* Called with the payment id of the captured payment.
confirm_booking_payment(b) ==
    /\ RowLockFree
    /\ IF b.status # "PENDING"
       THEN /\ UNCHANGED <<bookings, availability>>
       ELSE LET s == save(bookings, availability, b,
                          [b EXCEPT !.status = "CONFIRMED",
                                    !.payment_status = "PAID"], now)
            IN /\ bookings' = s.bookings
               /\ availability' = s.availability
    /\ race' = NoRace
    /\ UNCHANGED <<game, now, req, lock>>

\* ---- BookingService.cancel_booking --------------------------------------
cancel_booking(b) ==
    /\ RowLockFree
    /\ IF b.status \in {"CANCELLED", "COMPLETED"}
       THEN /\ UNCHANGED <<bookings, availability>>
       ELSE LET av1 == IF b.status \in {"CONFIRMED", "IN_PROGRESS"}
                       THEN (IF b.booking_type = "PRIVATE"
                             THEN [availability EXCEPT
                                     !.is_private_booked = FALSE,
                                     !.booked_spots = 0]
                             ELSE [availability EXCEPT
                                     !.booked_spots =
                                         Max(0, @ - b.spots_booked)])
                       ELSE availability
                s == save(bookings, av1, b,
                          [b EXCEPT !.status = "CANCELLED"], now)
            IN /\ bookings' = s.bookings
               /\ availability' = s.availability
    /\ race' = NoRace
    /\ UNCHANGED <<game, now, req, lock>>

\* ---- booking_service.auto_update_booking_status -------------------------
auto_update_booking_status(b) ==
    /\ RowLockFree
    /\ LET s1 == IF b.status = "PENDING" /\ now >= b.reservation_expires_at
                    /\ ~b.is_reservation_expired
                 THEN save(bookings, availability, b,
                           [b EXCEPT !.status = "EXPIRED",
                                     !.is_reservation_expired = TRUE], now)
                 ELSE Unsaved(bookings, availability, b)
           b1 == s1.row
           st == IF b1.status = "CONFIRMED" /\ SlotStart <= now /\ now < SlotEnd
                 THEN "IN_PROGRESS"
                 ELSE IF b1.status = "IN_PROGRESS" /\ now >= SlotEnd
                 THEN (IF b1.is_verified THEN "COMPLETED" ELSE "NO_SHOW")
                 ELSE IF b1.status = "CONFIRMED" /\ now >= SlotEnd
                         /\ ~b1.is_verified
                 THEN "NO_SHOW"
                 ELSE b1.status
           s2 == IF st # b1.status
                 THEN save(s1.bookings, s1.availability, b1,
                           [b1 EXCEPT !.status = st], now)
                 ELSE s1
       IN /\ bookings' = s2.bookings
          /\ availability' = s2.availability
    /\ race' = NoRace
    /\ UNCHANGED <<game, now, req, lock>>

\* ---- the clock ----------------------------------------------------------
Tick ==
    /\ now < MaxTime
    /\ now' = Min(now + TickMinutes, MaxTime)
    /\ race' = NoRace
    /\ UNCHANGED <<game, availability, bookings, req, lock>>

Next ==
    \/ \E p \in Requests, ty \in {"PRIVATE", "SHARED"}, n \in 1..game.capacity :
          hybrid_booking_create(p, ty, n) /\ UNCHANGED sideVars
    \/ \E p \in Requests : create_booking_lock(p) /\ UNCHANGED sideVars
    \/ \E p \in Requests : create_booking_commit(p) /\ UNCHANGED sideVars
    \/ \E b \in Rows(bookings) :
          confirm_booking_payment(b) /\ UNCHANGED sideVars
    \/ \E b \in Rows(bookings) : cancel_booking(b) /\ UNCHANGED sideVars
    \/ \E b \in Rows(bookings) :
          auto_update_booking_status(b) /\ UNCHANGED sideVars
    \/ Tick /\ UNCHANGED sideVars

Spec == Init /\ [][Next]_vars

\* ========================================================================
\* Slot generation (slot_generator.py)
\* ========================================================================
\* GameSlot rows are [date, start_time, end_time], SlotAvailability rows
\* carry the (date, start_time) of their game_slot.  Both tables are bags,
\* so that a row inserted twice shows.  Times of day are 0..DayLength-1 and
\* datetime.time() drops the day: a time past the end of the day wraps.
\* date.today()
Today == 1

TimeOfDay(t) == t % DayLength

\* The while loop of _generate_slots_for_date.  The loop's only state is
\* current_time, so it runs for ever exactly when current_time comes back
\* to a value it has had: returns is then FALSE.
RECURSIVE slot_loop(_, _, _, _)
slot_loop(sch, current_time, slots_to_create, seen) ==
    IF ~(current_time < sch.closing_time)
    THEN [slots |-> slots_to_create, returns |-> TRUE]
    ELSE LET end_time == TimeOfDay(current_time + sch.slot_duration_minutes)
         IN IF end_time > sch.closing_time
            THEN [slots |-> slots_to_create, returns |-> TRUE]
            ELSE IF current_time \in seen
            THEN [slots |-> slots_to_create, returns |-> FALSE]
            ELSE slot_loop(sch, end_time,
                           Append(slots_to_create,
                                  [start_time |-> current_time,
                                   end_time |-> end_time]),
                           seen \cup {current_time})

build_slots(sch) == slot_loop(sch, sch.opening_time, << >>, {})

invalid_schedule(sch) ==
    sch.opening_time >= sch.closing_time \/ sch.slot_duration_minutes <= 0

\* A variant that takes every date for a future one.
never_past(d) == FALSE

is_past(d) == d < Today

\* A variant that never finds the slots of a date.
never_exists(tbl, d) == FALSE

existing_slots(tbl, d) == \E r \in BagToSet(tbl) : r.date = d

HasSlot(tbl, d, st) ==
    \E r \in BagToSet(tbl) : r.date = d /\ r.start_time = st

GameSlotRow(d, sl) ==
    [date |-> d, start_time |-> sl.start_time, end_time |-> sl.end_time,
     is_custom |-> FALSE]

SlotAvailabilityRow(d, st) ==
    [date |-> d, start_time |-> st, total_capacity |-> game.capacity,
     booked_spots |-> 0, is_private_booked |-> FALSE]

\* A variant that inserts every row, unique key or not.
RECURSIVE bulk_create_all(_, _, _)
bulk_create_all(tbl, d, objs) ==
    IF objs = << >> THEN tbl
    ELSE bulk_create_all(tbl (+) SetToBag({GameSlotRow(d, Head(objs))}),
                         d, Tail(objs))

\* GameSlot.objects.bulk_create(objs, ignore_conflicts=True) under
\* unique_together (game, date, start_time).
RECURSIVE bulk_create(_, _, _)
bulk_create(tbl, d, objs) ==
    IF objs = << >> THEN tbl
    ELSE LET sl == Head(objs)
             t1 == IF HasSlot(tbl, d, sl.start_time) THEN tbl
                   ELSE tbl (+) SetToBag({GameSlotRow(d, sl)})
         IN bulk_create(t1, d, Tail(objs))

Schedules ==
    { [opening_time |-> o, closing_time |-> c, slot_duration_minutes |-> d,
       is_active |-> a, available_days |-> days] :
      o \in 0..(DayLength - 1), c \in 0..(DayLength - 1),
      d \in 0..MaxDuration, a \in BOOLEAN,
      days \in {Dates, {Today}, {}} }

GenTypeOK ==
    /\ schedule \in Schedules
    /\ \A c \in Callers :
          gen[c].pc \in {"idle", "date", "bulk_slots", "bulk_availabilities",
                         "legacy", "hung", "done"}
    /\ calls \in 0..MaxCalls

\* No booking is made while the slots are generated.
BookingUnchanged ==
    UNCHANGED <<game, availability, bookings, now, req, lock, race,
                slot_bookings, sweep, txn>>

\* ---- SlotGenerator.generate_slots_for_game ------------------------------
Returned(g) ==
    [IdleCaller EXCEPT !.pc = "done", !.start_date = g.start_date,
                       !.end_date = g.end_date,
                       !.slots_created = g.slots_created,
                       !.errors = g.errors, !.repeat = g.repeat]

NextDate(g, created, failed) ==
    [g EXCEPT !.pc = "date", !.current_date = @ + 1,
              !.slots_to_create = << >>, !.index = 0, !.created = 0,
              !.slots_created = @ + created, !.errors = @ \/ failed]

generate_slots_for_game(c, start_date, end_date) ==
    /\ gen[c].pc \in {"idle", "done"}
    /\ calls < MaxCalls
    /\ calls' = calls + 1
    /\ LET again == /\ gen[c].pc = "done"
                    /\ gen[c].start_date = start_date
                    /\ gen[c].end_date = end_date
           g == [IdleCaller EXCEPT !.start_date = start_date,
                                   !.end_date = end_date,
                                   !.current_date = start_date,
                                   !.repeat = again]
       IN gen' = [gen EXCEPT ![c] =
                    IF ~schedule.is_active THEN Returned(g)
                    ELSE IF schedule.available_days = {}
                    THEN Returned([g EXCEPT !.errors = TRUE])
                    ELSE [g EXCEPT !.pc = "date"]]
    /\ UNCHANGED <<schedule, slots, availabilities>>
    /\ BookingUnchanged

\* ---- one turn of the date loop, _generate_slots_for_date up to the insert
generate_slots_for_date(c) ==
    /\ gen[c].pc = "date"
    /\ LET g == gen[c]
           d == g.current_date
           l == build_slots(schedule)
       IN gen' = [gen EXCEPT ![c] =
                    IF d > g.end_date THEN Returned(g)
                    ELSE IF d \notin schedule.available_days
                    THEN NextDate(g, 0, FALSE)
                    ELSE IF is_past(d) THEN NextDate(g, 0, FALSE)
                    ELSE IF invalid_schedule(schedule)
                    THEN NextDate(g, 0, TRUE)
                    ELSE IF existing_slots(slots, d) THEN NextDate(g, 0, FALSE)
                    ELSE IF ~l.returns THEN [g EXCEPT !.pc = "hung"]
                    ELSE IF l.slots = << >> THEN NextDate(g, 0, FALSE)
                    ELSE [g EXCEPT !.pc = "bulk_slots",
                                   !.slots_to_create = l.slots]]
    /\ UNCHANGED <<schedule, slots, availabilities, calls>>
    /\ BookingUnchanged

bulk_create_slots(c) ==
    /\ gen[c].pc = "bulk_slots"
    /\ slots' = bulk_create(slots, gen[c].current_date,
                            gen[c].slots_to_create)
    /\ gen' = [gen EXCEPT ![c].pc = "bulk_availabilities"]
    /\ UNCHANGED <<schedule, availabilities, calls>>
    /\ BookingUnchanged

\* bulk_create(ignore_conflicts=True) hands the GameSlot instances back
\* without primary keys, so every SlotAvailability of the second
\* bulk_create points at an unsaved game_slot: the insert either raises
\* (and the except branch falls back to the legacy method) or has its rows
\* ignored by the database.
bulk_create_availabilities(c) ==
    /\ gen[c].pc = "bulk_availabilities"
    /\ \E outcome \in {"raises", "ignored"} :
          gen' = [gen EXCEPT ![c] =
                    IF outcome = "raises"
                    THEN [@ EXCEPT !.pc = "legacy", !.index = 1]
                    ELSE NextDate(@, Len(@.slots_to_create), FALSE)]
    /\ UNCHANGED <<schedule, slots, availabilities, calls>>
    /\ BookingUnchanged

\* ---- SlotGenerator._generate_slots_for_date_legacy, one slot a step -----
generate_slots_for_date_legacy(c) ==
    /\ gen[c].pc = "legacy"
    /\ LET g == gen[c]
           d == g.current_date
           sl == g.slots_to_create[g.index]
           created == ~HasSlot(slots, d, sl.start_time)
           has_availability ==
               \E a \in BagToSet(availabilities) :
                   a.date = d /\ a.start_time = sl.start_time
           n == g.created + (IF created THEN 1 ELSE 0)
       IN /\ slots' = IF created
                      THEN slots (+) SetToBag({GameSlotRow(d, sl)})
                      ELSE slots
          /\ availabilities' =
                IF created /\ ~has_availability
                THEN availabilities
                        (+) SetToBag({SlotAvailabilityRow(d, sl.start_time)})
                ELSE availabilities
          /\ gen' = [gen EXCEPT ![c] =
                       IF g.index = Len(g.slots_to_create)
                       THEN NextDate(g, n, FALSE)
                       ELSE [g EXCEPT !.index = @ + 1, !.created = n]]
    /\ UNCHANGED <<schedule, calls>>
    /\ BookingUnchanged

BookingIdle ==
    /\ availability = [total_capacity |-> game.capacity, booked_spots |-> 0,
                       is_private_booked |-> FALSE]
    /\ bookings = EmptyBag
    /\ now = 0
    /\ req = [p \in Requests |-> IdleRequest]
    /\ lock = NoRequest
    /\ race = NoRace

GenInit ==
    /\ game = [capacity |-> MaxCapacity, booking_type |-> "HYBRID",
               private_price |-> PrivatePrice, shared_price |-> SharedPrice]
    /\ BookingIdle
    /\ schedule \in Schedules
    /\ slots = EmptyBag
    /\ availabilities = EmptyBag
    /\ gen = [c \in Callers |-> IdleCaller]
    /\ calls = 0
    /\ slot_bookings = {}
    /\ sweep = IdleSweep
    /\ txn = [p \in Requests |-> IdleTxn]

GenStep(c) ==
    \/ \E start_date \in Dates, end_date \in Dates :
          generate_slots_for_game(c, start_date, end_date)
    \/ generate_slots_for_date(c)
    \/ bulk_create_slots(c)
    \/ bulk_create_availabilities(c)
    \/ generate_slots_for_date_legacy(c)

\* One caller at a time.
GenNext == GenStep(1)

GenSpec == GenInit /\ [][GenNext]_vars

\* Concurrent callers for one date of an open resource: the on-demand read
\* path, the background thread and the owner's action run the statements of
\* _generate_slots_for_date side by side.
RaceInit ==
    /\ GenInit
    /\ schedule.is_active
    /\ schedule.available_days = Dates

SameDate(d) ==
    \A k \in Callers : gen[k].pc = "idle" \/ gen[k].start_date = d

RaceNext ==
    \E c \in Callers :
        \/ \E d \in Dates : SameDate(d) /\ generate_slots_for_game(c, d, d)
        \/ generate_slots_for_date(c)
        \/ bulk_create_slots(c)
        \/ bulk_create_availabilities(c)
        \/ generate_slots_for_date_legacy(c)

RaceSpec == RaceInit /\ [][RaceNext]_vars

\* ========================================================================
\* The batch sweep (booking_service.auto_update_bookings_status)
\* ========================================================================
\* The Booking rows carry their primary key here: the sweep works on the
\* instances its queryset loaded, while other requests go on writing the
\* rows.  The bookings are those of a slot on which nothing is confirmed
\* yet: one PENDING PRIVATE booking or some PENDING one-spot SHARED ones.
PendingRow(i, ty, n) ==
    [booking_type |-> ty, spots_booked |-> n,
     subtotal |-> IF ty = "PRIVATE" THEN PrivatePrice ELSE SharedPrice * n,
     status |-> "PENDING", payment_status |-> "",
     reservation_expires_at |-> ReservationMinutes,
     is_reservation_expired |-> FALSE, is_verified |-> FALSE, id |-> i]

InitialBookings ==
    {SetToBag({PendingRow(1, "PRIVATE", MaxCapacity)})}
       \cup {SetToBag({PendingRow(i, "SHARED", 1) : i \in 1..m}) :
                m \in 1..Min(MaxCapacity, MaxBookings)}

RowOf(i) == CHOOSE r \in Rows(bookings) : r.id = i

\* ---- QRCodeService.mark_as_verified, behind the checks of its view ------
mark_as_verified(b) ==
    /\ RowLockFree
    /\ b.status \in {"CONFIRMED", "IN_PROGRESS"}
    /\ ~b.is_verified
    /\ LET s == save(bookings, availability, b,
                     [b EXCEPT !.is_verified = TRUE,
                               !.status = IF @ = "CONFIRMED"
                                          THEN "IN_PROGRESS" ELSE @], now)
       IN /\ bookings' = s.bookings
          /\ availability' = s.availability
    /\ race' = NoRace
    /\ UNCHANGED <<game, now, req, lock, sideVars>>

\* ---- auto_update_bookings_status: the queryset is evaluated ------------
auto_update_bookings_status ==
    /\ sweep.pc \in {"idle", "raised"}
    /\ LET queryset == {b \in Rows(bookings) :
                          b.status \in {"PENDING", "CONFIRMED", "IN_PROGRESS"}}
       IN /\ queryset # {}
          /\ sweep' = [pc |-> "loop", todo |-> queryset]
    /\ UNCHANGED <<game, availability, bookings, now, req, lock, race,
                   genVars, txn>>

Swept(x) ==
    LET rest == sweep.todo \ {x}
    IN [pc |-> IF rest = {} THEN "idle" ELSE "loop", todo |-> rest]

\* ---- one turn of its loop: auto_update_booking_status(booking) ----------
\* The conditions are read from the loaded instance x; save(update_fields)
\* writes the status over the row as it is now, and Booking.save reads
\* old_status from that row.
sweep_booking(x) ==
    /\ sweep.pc = "loop"
    /\ x \in sweep.todo
    /\ RowLockFree
    /\ LET r == RowOf(x.id)
           st == signal_new_status(x, now)
       IN IF st = x.status
          THEN UNCHANGED <<bookings, availability>>
          ELSE LET s == save(bookings, availability, r,
                             [r EXCEPT !.status = st,
                                       !.is_reservation_expired =
                                           (@ \/ st = "EXPIRED")], now)
               IN /\ bookings' = s.bookings
                  /\ availability' = s.availability
    /\ sweep' = Swept(x)
    /\ race' = NoRace
    /\ UNCHANGED <<game, now, req, lock, genVars, txn>>

\* booking.save() raises (the database, a receiver): nothing in
\* auto_update_booking_status or in the loop catches it, the bookings that
\* were still to come are not looked at.
sweep_booking_raises(x) ==
    /\ sweep.pc = "loop"
    /\ x \in sweep.todo
    /\ signal_new_status(x, now) # x.status
    /\ sweep' = [pc |-> "raised", todo |-> sweep.todo \ {x}]
    /\ UNCHANGED <<game, availability, bookings, now, req, lock, race,
                   genVars, txn>>

SweepInit ==
    /\ game = [capacity |-> MaxCapacity, booking_type |-> "HYBRID",
               private_price |-> PrivatePrice, shared_price |-> SharedPrice]
    /\ availability = [total_capacity |-> game.capacity, booked_spots |-> 0,
                       is_private_booked |-> FALSE]
    /\ bookings \in InitialBookings
    /\ now = 0
    /\ req = [p \in Requests |-> IdleRequest]
    /\ lock = NoRequest
    /\ race = NoRace
    /\ schedule = [opening_time |-> 0, closing_time |-> 1,
                   slot_duration_minutes |-> 1, is_active |-> TRUE,
                   available_days |-> Dates]
    /\ slots = EmptyBag
    /\ availabilities = EmptyBag
    /\ gen = [c \in Callers |-> IdleCaller]
    /\ calls = 0
    /\ slot_bookings = {}
    /\ sweep = IdleSweep
    /\ txn = [p \in Requests |-> IdleTxn]

\* A sweep is over within one request: the clock does not move under it.
SweepTick == sweep.pc # "loop" /\ Tick /\ UNCHANGED sideVars

\* The sweep with every save going through.
LiveNext ==
    \/ \E b \in Rows(bookings) :
          confirm_booking_payment(b) /\ UNCHANGED sideVars
    \/ \E b \in Rows(bookings) : cancel_booking(b) /\ UNCHANGED sideVars
    \/ \E b \in Rows(bookings) : mark_as_verified(b)
    \/ auto_update_bookings_status
    \/ \E x \in sweep.todo : sweep_booking(x)
    \/ SweepTick

SweepNext ==
    \/ \E b \in Rows(bookings) :
          confirm_booking_payment(b) /\ UNCHANGED sideVars
    \/ \E b \in Rows(bookings) : cancel_booking(b) /\ UNCHANGED sideVars
    \/ \E b \in Rows(bookings) : mark_as_verified(b)
    \/ auto_update_bookings_status
    \/ \E x \in sweep.todo : sweep_booking(x)
    \/ \E x \in sweep.todo : sweep_booking_raises(x)
    \/ SweepTick

SweepSpec == SweepInit /\ [][SweepNext]_vars

\* The sweep keeps being applied, and the clock moves on between sweeps
\* however many of them there are.
LiveSpec ==
    /\ SweepInit
    /\ [][LiveNext]_vars
    /\ WF_vars(auto_update_bookings_status)
    /\ WF_vars(\E x \in sweep.todo : sweep_booking(x))
    /\ SF_vars(SweepTick)

\* ========================================================================
\* The background maintenance of the slots (auto_slot_generator.py)
\* ========================================================================
\* Caller 1 is the read path that generates the date it is asked for,
\* caller 2 the background task; one of them runs at a time.
OnDemand == 1
Maintenance == 2

AtRest(c) == gen[c].pc \in {"idle", "done"}

\* Max('date') over the slots of the game, 0 - 1 standing for None.
latest_slot(tbl) ==
    IF tbl = EmptyBag THEN 0 - 1
    ELSE CHOOSE d \in Dates :
            /\ existing_slots(tbl, d)
            /\ \A e \in Dates : existing_slots(tbl, e) => e <= d

target_date == Today + DaysToMaintain

\* ---- AutoSlotGenerator._ensure_game_slots, first check of the hour ------
ensure_game_slots(c) ==
    LET latest == latest_slot(slots)
        start_date == IF latest >= 0 THEN latest + 1 ELSE Today
    IN IF latest < target_date
       THEN generate_slots_for_game(c, start_date, target_date)
       ELSE /\ AtRest(c)
            /\ calls < MaxCalls
            /\ calls' = calls + 1
            /\ gen' = [gen EXCEPT ![c] =
                         Returned([IdleCaller EXCEPT
                                     !.start_date = target_date,
                                     !.end_date = target_date])]
            /\ UNCHANGED <<schedule, slots, availabilities>>
            /\ BookingUnchanged

HorizonInit ==
    /\ GenInit
    /\ schedule.is_active
    /\ schedule.available_days # {}

HorizonNext ==
    \/ \E d \in Dates :
          AtRest(Maintenance) /\ generate_slots_for_game(OnDemand, d, d)
    \/ AtRest(OnDemand) /\ ensure_game_slots(Maintenance)
    \/ \E c \in {OnDemand, Maintenance} : generate_slots_for_date(c)
    \/ \E c \in {OnDemand, Maintenance} : bulk_create_slots(c)
    \/ \E c \in {OnDemand, Maintenance} : bulk_create_availabilities(c)
    \/ \E c \in {OnDemand, Maintenance} : generate_slots_for_date_legacy(c)

HorizonSpec == HorizonInit /\ [][HorizonNext]_vars

\* ========================================================================
\* Custom slots and regeneration (slot_generator.py)
\* ========================================================================
\* slot_bookings holds the Booking rows of the generated and custom slots,
\* each with the (date, start_time) of its game_slot and its status; a slot
\* has one of them at most here.  Caller 1 generates, caller 2
\* regenerates, and one operation of the owner runs at a time.
Regeneration == 2

Times == 0..(DayLength - 1)

NoCallRunning == \A c \in Callers : AtRest(c)

BookingsOf(r) ==
    {b \in slot_bookings : b.date = r.date /\ b.start_time = r.start_time}

ActiveBookingsOf(r) ==
    {b \in BookingsOf(r) : b.status \in {"CONFIRMED", "IN_PROGRESS", "PENDING"}}

CustomSlotRow(d, st, et) ==
    [date |-> d, start_time |-> st, end_time |-> et, is_custom |-> TRUE]

\* The rows of a table left when the slots of gone are deleted.
Without(tbl, gone) ==
    LET kept == {x \in DOMAIN tbl :
                    \A r \in gone :
                        ~(x.date = r.date /\ x.start_time = r.start_time)}
    IN [x \in kept |-> tbl[x]]

validate_custom_slot_params(d, st, et) ==
    schedule.is_active /\ d >= Today /\ st < et

\* TRUE when no active slot of the date overlaps start_time..end_time.
check_slot_conflicts(tbl, d, st, et) ==
    ~\E r \in BagToSet(tbl) :
        r.date = d /\ r.start_time < et /\ r.end_time > st

\* ---- SlotGenerator.create_custom_slot -----------------------------------
\* GameSlot.objects.create raises on the unique key (game, date,
\* start_time); the except branch turns that into a refusal.
create_custom_slot(d, st, et, validate_conflicts) ==
    /\ NoCallRunning
    /\ calls < MaxCalls
    /\ calls' = calls + 1
    /\ IF /\ validate_custom_slot_params(d, st, et)
          /\ validate_conflicts => check_slot_conflicts(slots, d, st, et)
          /\ ~HasSlot(slots, d, st)
       THEN /\ slots' = slots (+) SetToBag({CustomSlotRow(d, st, et)})
            /\ availabilities' =
                  availabilities (+) SetToBag({SlotAvailabilityRow(d, st)})
       ELSE UNCHANGED <<slots, availabilities>>
    /\ UNCHANGED <<schedule, gen, slot_bookings>>
    /\ UNCHANGED <<game, availability, bookings, now, req, lock, race,
                   sweep, txn>>

\* ---- SlotGenerator.update_custom_slot -----------------------------------
update_custom_slot(r, d, st, et) ==
    /\ NoCallRunning
    /\ calls < MaxCalls
    /\ calls' = calls + 1
    /\ r.is_custom
    /\ LET others == slots (-) SetToBag({r})
           nr == CustomSlotRow(d, st, et)
           moved(x) == IF x.date = r.date /\ x.start_time = r.start_time
                       THEN [x EXCEPT !.date = d, !.start_time = st]
                       ELSE x
       IN IF /\ \A b \in BookingsOf(r) :
                   b.status \notin {"CONFIRMED", "IN_PROGRESS"}
             /\ validate_custom_slot_params(d, st, et)
             /\ check_slot_conflicts(others, d, st, et)
             /\ ~HasSlot(others, d, st)
          THEN /\ slots' = others (+) SetToBag({nr})
               /\ availabilities' =
                     Without(availabilities, {r})
                        (+) SetToBag({moved(a) :
                               a \in {x \in BagToSet(availabilities) :
                                         /\ x.date = r.date
                                         /\ x.start_time = r.start_time}})
               /\ slot_bookings' = {moved(b) : b \in slot_bookings}
          ELSE UNCHANGED <<slots, availabilities, slot_bookings>>
    /\ UNCHANGED <<schedule, gen>>
    /\ UNCHANGED <<game, availability, bookings, now, req, lock, race,
                   sweep, txn>>

\* ---- SlotGenerator.delete_custom_slot -----------------------------------
\* slot.delete() takes the SlotAvailability and the Booking rows of the
\* slot with it (on_delete=CASCADE).
delete_custom_slot(r, force) ==
    /\ NoCallRunning
    /\ calls < MaxCalls
    /\ calls' = calls + 1
    /\ r.is_custom
    /\ IF ActiveBookingsOf(r) # {} /\ ~force
       THEN UNCHANGED <<slots, availabilities, slot_bookings>>
       ELSE /\ slots' = slots (-) SetToBag({r})
            /\ availabilities' = Without(availabilities, {r})
            /\ slot_bookings' = slot_bookings \ BookingsOf(r)
    /\ UNCHANGED <<schedule, gen>>
    /\ UNCHANGED <<game, availability, bookings, now, req, lock, race,
                   sweep, txn>>

\* ---- SlotGenerator.regenerate_slots_for_game ----------------------------
\* Called once the game is saved with the schedule sch; days_ahead reaches
\* the last date.  The deletions, then generate_slots_for_game(today,
\* today + days_ahead) by the date loop.
regenerate_slots_for_game(c, sch, preserve_bookings) ==
    /\ NoCallRunning
    /\ calls < MaxCalls
    /\ calls' = calls + 1
    /\ schedule' = sch
    /\ LET slots_to_delete ==
               {r \in BagToSet(slots) :
                   /\ ~r.is_custom
                   /\ r.date >= Today
                   /\ preserve_bookings => BookingsOf(r) = {}}
           g == [IdleCaller EXCEPT !.start_date = Today,
                                   !.end_date = MaxDate,
                                   !.current_date = Today]
       IN /\ slots' = Without(slots, slots_to_delete)
          /\ availabilities' = Without(availabilities, slots_to_delete)
          /\ slot_bookings' =
                {b \in slot_bookings :
                    \A r \in slots_to_delete : b \notin BookingsOf(r)}
          /\ gen' = [gen EXCEPT ![c] =
                       IF ~sch.is_active THEN Returned(g)
                       ELSE IF sch.available_days = {}
                       THEN Returned([g EXCEPT !.errors = TRUE])
                       ELSE [g EXCEPT !.pc = "date"]]
    /\ UNCHANGED <<game, availability, bookings, now, req, lock, race,
                   sweep, txn>>

\* ---- a customer books a slot, pays or cancels ---------------------------
book_slot(r) ==
    /\ NoCallRunning
    /\ r.date >= Today
    /\ BookingsOf(r) = {}
    /\ Cardinality(slot_bookings) < MaxBookings
    /\ slot_bookings' =
          slot_bookings \cup {[date |-> r.date, start_time |-> r.start_time,
                               status |-> "PENDING"]}
    /\ UNCHANGED <<schedule, slots, availabilities, gen, calls>>
    /\ UNCHANGED <<game, availability, bookings, now, req, lock, race,
                   sweep, txn>>

slot_booking_status(b, st) ==
    /\ NoCallRunning
    /\ b.status = "PENDING"
    /\ slot_bookings' = (slot_bookings \ {b}) \cup {[b EXCEPT !.status = st]}
    /\ UNCHANGED <<schedule, slots, availabilities, gen, calls>>
    /\ UNCHANGED <<game, availability, bookings, now, req, lock, race,
                   sweep, txn>>

\* An open game and the schedules its owner gives it: those the generator
\* takes.
OwnerSchedules ==
    {sch \in Schedules :
        /\ sch.is_active
        /\ sch.available_days = Dates
        /\ ~invalid_schedule(sch)}

AdminInit ==
    /\ GenInit
    /\ schedule \in OwnerSchedules

AdminNext ==
    \/ NoCallRunning /\ generate_slots_for_game(OnDemand, Today, MaxDate)
    \/ \E c \in {OnDemand, Regeneration} : generate_slots_for_date(c)
    \/ \E c \in {OnDemand, Regeneration} : bulk_create_slots(c)
    \/ \E c \in {OnDemand, Regeneration} : bulk_create_availabilities(c)
    \/ \E c \in {OnDemand, Regeneration} : generate_slots_for_date_legacy(c)
    \/ \E d \in Today..MaxDate, st \in Times, et \in Times, v \in BOOLEAN :
          create_custom_slot(d, st, et, v)
    \/ \E r \in BagToSet(slots) :
          \E d \in Today..MaxDate, st \in Times, et \in Times :
             update_custom_slot(r, d, st, et)
    \/ \E r \in BagToSet(slots), force \in BOOLEAN :
          delete_custom_slot(r, force)
    \/ \E sch \in OwnerSchedules, preserve_bookings \in BOOLEAN :
          regenerate_slots_for_game(Regeneration, sch, preserve_bookings)
    \/ \E r \in BagToSet(slots) : book_slot(r)
    \/ \E b \in slot_bookings, st \in {"CONFIRMED", "CANCELLED"} :
          slot_booking_status(b, st)

AdminSpec == AdminInit /\ [][AdminNext]_vars

\* ========================================================================
\* Booking.update_slot_availability step by step
\* ========================================================================
\* update_slot_availability reads the SlotAvailability row with
\* get_or_create, which takes no lock, changes the instance and writes the
\* whole row back with availability.save().  Between the read and the write
\* of one request another request can read and write the same row.  Only
\* cancel_booking of a CONFIRMED or IN_PROGRESS booking holds the row
\* (select_for_update) from its read to its commit; a write waits for the
\* holder, a plain read does not.  txn[p] is the request in flight: the
\* operation, the booking and the instance it read.
Operations == {"confirm", "expire", "cancel"}

BookingFree(b) == \A q \in Requests : txn[q].pc = "idle" \/ txn[q].id # b.id

Loaded(op, b) ==
    [pc |-> op, id |-> b.id, old_status |-> b.status,
     booked_spots |-> availability.booked_spots,
     is_private_booked |-> availability.is_private_booked]

\* confirm_booking_payment up to the read of the availability row.
confirm_booking_payment_read(p, b) ==
    /\ txn[p].pc = "idle"
    /\ BookingFree(b)
    /\ b.status = "PENDING"
    /\ txn' = [txn EXCEPT ![p] = Loaded("confirm", b)]
    /\ UNCHANGED <<game, availability, bookings, now, req, lock, race,
                   genVars, sweep>>

\* auto_update_booking_status, reservation over, up to the same read.
auto_update_booking_status_read(p, b) ==
    /\ txn[p].pc = "idle"
    /\ BookingFree(b)
    /\ signal_new_status(b, now) = "EXPIRED"
    /\ txn' = [txn EXCEPT ![p] = Loaded("expire", b)]
    /\ UNCHANGED <<game, availability, bookings, now, req, lock, race,
                   genVars, sweep>>

\* cancel_booking up to its first read: select_for_update for a booking
\* that holds spots, the plain read of update_slot_availability otherwise.
cancel_booking_read(p, b) ==
    /\ txn[p].pc = "idle"
    /\ BookingFree(b)
    /\ b.status \notin {"CANCELLED", "COMPLETED"}
    /\ IF b.status \in {"CONFIRMED", "IN_PROGRESS"}
       THEN lock = NoRequest /\ lock' = p
       ELSE UNCHANGED lock
    /\ txn' = [txn EXCEPT ![p] = Loaded("cancel", b)]
    /\ UNCHANGED <<game, availability, bookings, now, req, race,
                   genVars, sweep>>

\* What request p writes when the row it read was av.
written(p, av) ==
    LET t == txn[p]
        r == RowOf(t.id)
        nb == IF t.pc = "confirm"
              THEN [r EXCEPT !.status = "CONFIRMED",
                             !.payment_status = "PAID"]
              ELSE IF t.pc = "expire"
              THEN [r EXCEPT !.status = "EXPIRED",
                             !.is_reservation_expired = TRUE]
              ELSE [r EXCEPT !.status = "CANCELLED"]
        av1 == IF t.pc = "cancel"
                  /\ t.old_status \in {"CONFIRMED", "IN_PROGRESS"}
               THEN (IF r.booking_type = "PRIVATE"
                     THEN [av EXCEPT !.is_private_booked = FALSE,
                                     !.booked_spots = 0]
                     ELSE [av EXCEPT !.booked_spots =
                                         Max(0, @ - r.spots_booked)])
               ELSE av
    IN save(bookings, av1, r, nb, now)

ReadBy(p) ==
    [availability EXCEPT !.booked_spots = txn[p].booked_spots,
                         !.is_private_booked = txn[p].is_private_booked]

\* availability.save() and the commit of the request.
availability_save(p) ==
    /\ txn[p].pc \in Operations
    /\ lock \in {NoRequest, p}
    /\ LET s == written(p, ReadBy(p))
       IN /\ bookings' = s.bookings
          /\ availability' = s.availability
    /\ lock' = NoRequest
    /\ txn' = [txn EXCEPT ![p] = IdleTxn]
    /\ UNCHANGED <<game, now, req, race, genVars, sweep>>

\* The slot of SweepInit, before or after the end of the reservations.
RmwInit ==
    /\ game = [capacity |-> MaxCapacity, booking_type |-> "HYBRID",
               private_price |-> PrivatePrice, shared_price |-> SharedPrice]
    /\ availability = [total_capacity |-> game.capacity, booked_spots |-> 0,
                       is_private_booked |-> FALSE]
    /\ bookings \in InitialBookings
    /\ now \in {0, ReservationMinutes}
    /\ req = [p \in Requests |-> IdleRequest]
    /\ lock = NoRequest
    /\ race = NoRace
    /\ schedule = [opening_time |-> 0, closing_time |-> 1,
                   slot_duration_minutes |-> 1, is_active |-> TRUE,
                   available_days |-> Dates]
    /\ slots = EmptyBag
    /\ availabilities = EmptyBag
    /\ gen = [c \in Callers |-> IdleCaller]
    /\ calls = 0
    /\ slot_bookings = {}
    /\ sweep = IdleSweep
    /\ txn = [p \in Requests |-> IdleTxn]

RmwNext ==
    \/ \E p \in Requests : \E b \in Rows(bookings) :
          confirm_booking_payment_read(p, b)
    \/ \E p \in Requests : \E b \in Rows(bookings) :
          auto_update_booking_status_read(p, b)
    \/ \E p \in Requests : \E b \in Rows(bookings) :
          cancel_booking_read(p, b)
    \/ \E p \in Requests : availability_save(p)

RmwSpec == RmwInit /\ [][RmwNext]_vars

\* ========================================================================
\* Claims
\* ========================================================================

\* C1: the CONFIRMED and IN_PROGRESS bookings of the slot never hold more
\* spots in total than the slot's capacity.
NoDoubleBooking ==
    LET active == {b \in Rows(bookings) :
                      b.status \in {"CONFIRMED", "IN_PROGRESS"}}
        held == [b \in active |-> CopiesIn(b, bookings) * b.spots_booked]
    IN BagCardinality(held) <= availability.total_capacity

\* C2: on a HYBRID slot of capacity C, 0 <= booked_spots <= C in every
\* reachable state.
CapacityConservation ==
    game.booking_type = "HYBRID" =>
        /\ 0 <= availability.booked_spots
        /\ availability.booked_spots <= availability.total_capacity

\* C3: is_private_booked implies booked_spots = total_capacity in every
\* reachable state.
MutualExclusion ==
    availability.is_private_booked =>
        availability.booked_spots = availability.total_capacity

\* C4: when concurrent one-spot SHARED create_booking calls race for the
\* single truly available spot, exactly one of them succeeds and every
\* other one fails with an insufficient-spots error.
RaceOver == DOMAIN race # {} /\ \A q \in DOMAIN race : race[q] # "running"

Accepted(p) == create_booking_lock(p) /\ req'[p].pc = "locked"

PendingRestrictsCreate ==
    [][\A p \in Requests :
          /\ Accepted(p) => ~has_pending(bookings, now, "PRIVATE")
          /\ Accepted(p) /\ req[p].booking_type = "PRIVATE"
                => ~has_pending(bookings, now, "SHARED")
          /\ ( /\ create_booking_lock(p)
               /\ req[p].booking_type = "SHARED"
               /\ has_pending(bookings, now, "SHARED")
               /\ ~has_pending(bookings, now, "PRIVATE")
               /\ req[p].spots_requested
                    <= get_truly_available_spots(availability, bookings, now)
               /\ req[p].spots_requested >= 1 )
                => req'[p].pc = "locked"]_vars

\* C6: cancel_booking of a CONFIRMED SHARED booking of n spots, on a slot
\* with booked_spots = b >= n, leaves booked_spots = b - n.
CancelReleasesExactly ==
    [][\A b \in Rows(bookings) :
          ( /\ cancel_booking(b)
            /\ b.status = "CONFIRMED" /\ b.booking_type = "SHARED"
            /\ availability.booked_spots >= b.spots_booked )
          => availability'.booked_spots
                = availability.booked_spots - b.spots_booked]_vars

\* C7: creating a PENDING booking, cancelling a PENDING booking and
\* expiring a PENDING booking (by the sweep of one booking or by
\* expire_old_reservations) leave booked_spots and is_private_booked as
\* they were.
\* Read from the availability side: a step that changes the row is none
\* of these.
PendingInvisible ==
    [][availability' # availability =>
          /\ \A p \in Requests : ~create_booking_commit(p)
          /\ \A b \in Rows(bookings) :
                b.status = "PENDING" => /\ ~cancel_booking(b)
                                        /\ ~auto_update_booking_status(b)
          /\ \A p \in Requests, ty \in {"PRIVATE", "SHARED"},
                n \in 1..game.capacity : ~hybrid_booking_create(p, ty, n)]_vars

\* A reservation cancelled or expired unpaid beside a confirmed SHARED
\* booking whose spots are still the ones counted.
PendingLeftNoTrace ==
    \E c \in Rows(bookings), b \in Rows(bookings) :
        /\ c.status = "CONFIRMED" /\ c.booking_type = "SHARED"
        /\ b.status \in {"CANCELLED", "EXPIRED"} /\ b.payment_status = ""
        /\ availability.booked_spots = c.spots_booked
        /\ ~availability.is_private_booked

\* C8: a successful SHARED request for all the spots of a slot with
\* booked_spots = 0 returns a PRIVATE booking of capacity spots at
\* private_price; one for fewer spots stays SHARED at shared_price per spot.
NewRow == CHOOSE r \in Rows(bookings' (-) bookings) : TRUE

AutoUpgrade ==
    [][\A p \in Requests :
          create_booking_commit(p) /\ req[p].booking_type = "SHARED" =>
            LET n == req[p].spots_requested
            IN /\ (n = game.capacity /\ availability.booked_spots = 0) =>
                    /\ NewRow.booking_type = "PRIVATE"
                    /\ NewRow.spots_booked = game.capacity
                    /\ NewRow.subtotal = game.private_price
               /\ n < game.capacity =>
                    /\ NewRow.booking_type = "SHARED"
                    /\ NewRow.spots_booked = n
                    /\ NewRow.subtotal = game.shared_price * n]_vars

\* A SHARED request for every spot that holds the row lock as PRIVATE, on a
\* game where the two prices differ.
UpgradedUnderLock ==
    \E p \in Requests :
        /\ req[p].pc = "locked"
        /\ req[p].booking_type = "SHARED"
        /\ req[p].spots_requested = game.capacity
        /\ game.capacity > 1
        /\ req[p].local_type = "PRIVATE"
        /\ req[p].total_price = game.private_price
        /\ game.private_price # game.shared_price * game.capacity

\* C9: confirm_booking_payment of a PENDING SHARED booking of n spots raises
\* booked_spots by exactly n, of a PENDING PRIVATE booking sets
\* is_private_booked and booked_spots = total_capacity, and the later
\* CONFIRMED to IN_PROGRESS transition adds no spots.
ConfirmationAccounting ==
    [][\A b \in Rows(bookings) :
          /\ (confirm_booking_payment(b) /\ b.status = "PENDING") =>
                IF b.booking_type = "SHARED"
                THEN availability'.booked_spots
                        = availability.booked_spots + b.spots_booked
                ELSE /\ availability'.is_private_booked
                     /\ availability'.booked_spots
                           = availability.total_capacity
          /\ ( /\ auto_update_booking_status(b)
               /\ b.status = "CONFIRMED" /\ b.booking_type = "SHARED"
               /\ SlotStart <= now /\ now < SlotEnd )
                => availability'.booked_spots = availability.booked_spots]_vars

\* C10: before the slot's start, when get_booking_options reports PRIVATE
\* available a PRIVATE create_booking succeeds, and when it reports SHARED
\* available it reports at least one spot and a SHARED create_booking
\* succeeds for every number of spots up to max_spots_per_booking.
CreateResult(av, bks, ty, n) ==
    IF SlotStart <= now THEN "PastSlot"
    ELSE IF validate_booking_type_lock(av, ty) # "ok"
    THEN validate_booking_type_lock(av, ty)
    ELSE IF handle_booking_conflict(av, ty, n) # "ok"
    THEN handle_booking_conflict(av, ty, n)
    ELSE validate_booking_request(game, av, bks, now, ty, n).err

OptionsAgreeWithCreation ==
    now < SlotStart =>
        LET s == expire_old_reservations(bookings, availability, now)
            o == get_booking_options(game, s.availability, s.bookings, now)
        IN /\ (o.private_offered /\ o.private_available) =>
                CreateResult(s.availability, s.bookings, "PRIVATE", 1) = "ok"
           /\ (o.shared_offered /\ o.shared_available) =>
                /\ o.max_spots_per_booking >= 1
                /\ \A n \in 1..o.max_spots_per_booking :
                      CreateResult(s.availability, s.bookings, "SHARED", n)
                         = "ok"

\* C11: a PENDING booking whose reservation_expires_at <= now is counted
\* neither by get_reserved_spots_count nor by get_truly_available_spots,
\* marked EXPIRED or not: the counts and create_booking's verdict are the
\* same on the rows as they are and on the rows left by the expiry sweep.
ExpiredNeverCounted ==
    LET s == expire_old_reservations(bookings, availability, now)
    IN /\ get_reserved_spots_count(bookings, now)
            = get_reserved_spots_count(s.bookings, now)
       /\ get_truly_available_spots(availability, bookings, now)
            = get_truly_available_spots(s.availability, s.bookings, now)
       /\ \A ty \in {"PRIVATE", "SHARED"}, n \in 1..game.capacity :
            validate_booking_request(game, availability, bookings, now, ty, n)
              = validate_booking_request(game, s.availability, s.bookings,
                                         now, ty, n)

\* A lapsed reservation not yet marked EXPIRED, on a HYBRID slot that has
\* a spot to offer.
LapsedUnmarked ==
    /\ ExpiredPending(bookings, now) # {}
    /\ game.booking_type = "HYBRID"
    /\ get_truly_available_spots(availability, bookings, now) >= 1

\* C12: cancel_booking on a booking that is IN_PROGRESS, COMPLETED,
\* CANCELLED, NO_SHOW or EXPIRED is rejected and leaves the booking and the
\* slot's booked_spots and is_private_booked as they were.
CancelOnlyPendingOrConfirmed ==
    [][\A b \in Rows(bookings) :
          ( /\ cancel_booking(b)
            /\ b.status \in {"IN_PROGRESS", "COMPLETED", "CANCELLED",
                             "NO_SHOW", "EXPIRED"} )
          => bookings' = bookings /\ availability' = availability]_vars

\* C13: a PRIVATE request on a slot with booked_spots > 0 is rejected by
\* the view or by create_booking and creates no booking.
PrivateNeedsEmptySlot ==
    [][availability.booked_spots > 0
          => \A p \in Requests :
                /\ req[p].booking_type = "PRIVATE"
                      => /\ ~Accepted(p)
                         /\ ~create_booking_commit(p)
                         /\ create_booking_lock(p)
                               => /\ req'[p] = IdleRequest
                                  /\ bookings' = bookings
                /\ req' # req
                      => \A n \in 1..game.capacity :
                            ~hybrid_booking_create(p, "PRIVATE", n)]_vars

\* A PRIVATE request turned away under the row lock because spots were
\* confirmed after the view had offered the option.
PrivateTurnedAway ==
    /\ availability.booked_spots > 0
    /\ \E p \in Requests : req[p].pc = "waiting"
                           /\ req[p].booking_type = "PRIVATE"

\* C14: a call of generate_slots_for_game that repeats the caller's last
\* call (same range, nothing else in between) inserts no GameSlot and no
\* SlotAvailability row and reports slots_created = 0.
IdempotentGeneration ==
    [][\A c \in Callers :
          gen'[c].repeat
             => /\ slots' = slots
                /\ availabilities' = availabilities
                /\ gen'[c].slots_created = 0]_vars

\* The repeated call has returned, and the first call had inserted slots.
RepeatedCallReturned ==
    /\ gen[1].pc = "done"
    /\ gen[1].repeat
    /\ gen[1].end_date >= gen[1].start_date
    /\ \E r \in BagToSet(slots) :
          r.date >= gen[1].start_date /\ r.date <= gen[1].end_date

\* C15: no GameSlot row has a date before today, and the dates of a range
\* that are today or later are still generated: after a call on an open
\* schedule whose loop builds slots, each such available date has slots.
NoPastSlots ==
    /\ \A r \in BagToSet(slots) : r.date >= Today
    /\ \A c \in Callers :
          ( /\ gen[c].pc = "done"
            /\ schedule.is_active
            /\ ~invalid_schedule(schedule)
            /\ build_slots(schedule).slots # << >> )
          => \A d \in gen[c].start_date..gen[c].end_date :
                (d >= Today /\ d \in schedule.available_days)
                   => existing_slots(slots, d)

\* A call whose range starts before today and ends today or later has
\* returned, and slots are there.
RangeAcrossToday ==
    /\ gen[1].pc = "done"
    /\ gen[1].start_date < Today
    /\ gen[1].end_date >= Today
    /\ gen[1].start_date \in schedule.available_days
    /\ slots # EmptyBag

\* C16: after a call on an open schedule with opening_time < closing_time
\* and slot_duration_minutes = d > 0, the slots of each generated date are
\* exactly [opening + k*d, opening + (k+1)*d] for
\* k = 0 .. (closing - opening) div d - 1, and none ends after closing_time.
SlotGrid ==
    \A c \in Callers :
       ( /\ gen[c].pc = "done"
         /\ schedule.is_active
         /\ ~invalid_schedule(schedule) )
       => LET o == schedule.opening_time
              d == schedule.slot_duration_minutes
              n == (schedule.closing_time - o) \div d
              grid == { [start_time |-> o + k * d,
                         end_time |-> o + (k + 1) * d] : k \in 0..(n - 1) }
          IN \A day \in gen[c].start_date..gen[c].end_date :
                (day >= Today /\ day \in schedule.available_days)
                   => { [start_time |-> r.start_time,
                         end_time |-> r.end_time] :
                        r \in {x \in BagToSet(slots) : x.date = day} } = grid

\* C17: on a schedule with opening_time < closing_time and
\* slot_duration_minutes > 0 the loop of _generate_slots_for_date always
\* comes to its end: no call stays in it for ever.
LoopTerminates ==
    ~invalid_schedule(schedule) => \A c \in Callers : gen[c].pc # "hung"

\* C18: a schedule that closes at midnight (closing_time = 0) and opens
\* later in the day is accepted: the call reports no error and each
\* generated date gets its (DayLength - opening) div d slots up to the end
\* of the day.
MidnightClosing ==
    \A c \in Callers :
       ( /\ gen[c].pc = "done"
         /\ schedule.is_active
         /\ schedule.closing_time = 0
         /\ schedule.opening_time > 0
         /\ schedule.slot_duration_minutes > 0 )
       => \A day \in gen[c].start_date..gen[c].end_date :
             (day >= Today /\ day \in schedule.available_days)
                => /\ ~gen[c].errors
                   /\ Cardinality({x \in BagToSet(slots) : x.date = day})
                        = (DayLength - schedule.opening_time)
                             \div schedule.slot_duration_minutes

\* C19: once the generator has returned, every GameSlot row has exactly one
\* SlotAvailability row, with total_capacity = game.capacity,
\* booked_spots = 0 and is_private_booked = FALSE.
OneAvailabilityPerSlot ==
    (\A c \in Callers : gen[c].pc \in {"idle", "done"})
       => \A r \in BagToSet(slots) :
             /\ CopiesIn(SlotAvailabilityRow(r.date, r.start_time),
                         availabilities) = 1
             /\ \A a \in BagToSet(availabilities) :
                   (a.date = r.date /\ a.start_time = r.start_time)
                      => a = SlotAvailabilityRow(r.date, r.start_time)

\* C20: concurrent generators for one date of a resource: no call reports
\* an error on a schedule with opening_time < closing_time and a positive
\* duration, and each (date, start_time) is in the GameSlot table once.
ConcurrentGenerationUnique ==
    /\ ~invalid_schedule(schedule) => \A c \in Callers : ~gen[c].errors
    /\ \A r \in BagToSet(slots) :
          /\ CopiesIn(r, slots) = 1
          /\ \A x \in BagToSet(slots) :
                (x.date = r.date /\ x.start_time = r.start_time) => x = r

\* Two callers have both found no slot for the date and both have run
\* their bulk_create of the same slots.
BothInserted ==
    /\ gen[1].pc = "bulk_availabilities"
    /\ gen[2].pc = "bulk_availabilities"
    /\ gen[1].current_date = gen[2].current_date
    /\ slots # EmptyBag

\* C28: before the slot's end, booked_spots of a slot that is not
\* is_private_booked is the sum of spots_booked over its SHARED bookings
\* that are CONFIRMED or IN_PROGRESS, and is_private_booked holds exactly
\* when a PRIVATE booking of the slot is CONFIRMED or IN_PROGRESS.
AvailabilityMirrorsConfirmed ==
    now < SlotEnd
       => LET active(ty) ==
                  {b \in Rows(bookings) :
                      /\ b.booking_type = ty
                      /\ b.status \in {"CONFIRMED", "IN_PROGRESS"}}
          IN /\ ~availability.is_private_booked
                   => availability.booked_spots
                        = BagCardinality(
                             [b \in active("SHARED")
                                 |-> CopiesIn(b, bookings) * b.spots_booked])
             /\ availability.is_private_booked <=> active("PRIVATE") # {}

\* C29: confirm_booking_payment on a PENDING booking whose
\* reservation_expires_at <= now is rejected: the booking is not CONFIRMED
\* and the SlotAvailability row stays as it was.
ExpiredNeverPromoted ==
    [][\A b \in Rows(bookings) :
          ( /\ b.status = "PENDING"
            /\ b.reservation_expires_at <= now
            /\ confirm_booking_payment(b) )
          => bookings' = bookings /\ availability' = availability]_vars

\* C23: auto_update_bookings_status never raises to its caller: when the
\* save of one booking of the batch fails, the sweep goes on with the
\* other bookings of the batch.
SweepNeverRaises == sweep.pc # "raised"

\* C27: each status change made by confirm_booking_payment or by a turn of
\* the sweep follows PENDING -> CONFIRMED, PENDING -> EXPIRED (reservation
\* over), CONFIRMED -> IN_PROGRESS (slot running), CONFIRMED -> NO_SHOW
\* (slot over, not verified), IN_PROGRESS -> COMPLETED (slot over,
\* verified) or IN_PROGRESS -> NO_SHOW (slot over, not verified), or two of
\* these edges in a row; a booking that is not PENDING is not confirmed and
\* a CANCELLED, EXPIRED, COMPLETED or NO_SHOW booking is left alone.
\* Read from the rows: a step that changes a status in any other way is
\* neither a confirmation nor a turn of the sweep.
LegalTransitions ==
    [][LET edge(r, old, new) ==
               \/ old = "PENDING" /\ new = "CONFIRMED"
               \/ /\ old = "PENDING" /\ new = "EXPIRED"
                  /\ r.reservation_expires_at <= now
               \/ /\ old = "CONFIRMED" /\ new = "IN_PROGRESS"
                  /\ SlotStart <= now /\ now < SlotEnd
               \/ /\ old = "CONFIRMED" /\ new = "NO_SHOW"
                  /\ now >= SlotEnd /\ ~r.is_verified
               \/ /\ old = "IN_PROGRESS" /\ new = "COMPLETED"
                  /\ now >= SlotEnd /\ r.is_verified
               \/ /\ old = "IN_PROGRESS" /\ new = "NO_SHOW"
                  /\ now >= SlotEnd /\ ~r.is_verified
           legal(r, old, new) ==
               \/ old = new
               \/ edge(r, old, new)
               \/ \E mid \in {"CONFIRMED"} :
                     edge(r, old, mid) /\ edge(r, mid, new)
       IN (\E r \in Rows(bookings) :
              \E n \in Rows(bookings') :
                 n.id = r.id /\ ~legal(r, r.status, n.status))
          => /\ \A b \in Rows(bookings) : ~confirm_booking_payment(b)
             /\ \A x \in sweep.todo : ~sweep_booking(x)]_vars

NoLostUpdate ==
    [][\A p \in Requests :
          availability_save(p)
             => availability' = written(p, availability).availability]_vars

\* C22: once _ensure_game_slots has returned for an active game whose
\* schedule gives slots, every date from today to today + DAYS_TO_MAINTAIN
\* that is among the available days has its slots, whatever dates the read
\* path generated before.
RollingHorizon ==
    ( /\ gen[Maintenance].pc = "done"
      /\ ~invalid_schedule(schedule)
      /\ build_slots(schedule).returns
      /\ build_slots(schedule).slots # << >> )
    => \A d \in Today..target_date :
          d \in schedule.available_days => existing_slots(slots, d)

\* C21: once regenerate_slots_for_game has returned for a game without
\* custom slots whose new schedule gives slots, every date from today to
\* the end of the horizon has the slots of the new schedule, a date that
\* kept a booked slot included, and every generated slot of those dates
\* that has no booking is a slot of the new schedule.
RegenerationComplete ==
    LET l == build_slots(schedule)
        fresh(r) == \E i \in 1..Len(l.slots) :
                       /\ r.start_time = l.slots[i].start_time
                       /\ r.end_time = l.slots[i].end_time
    IN ( /\ gen[Regeneration].pc = "done"
         /\ l.returns
         /\ l.slots # << >>
         /\ \A r \in BagToSet(slots) : ~r.is_custom )
       => /\ \A d \in Today..MaxDate : \A i \in 1..Len(l.slots) :
                \E r \in BagToSet(slots) :
                   /\ r.date = d
                   /\ r.start_time = l.slots[i].start_time
                   /\ r.end_time = l.slots[i].end_time
          /\ \A r \in BagToSet(slots) :
                (r.date >= Today /\ BookingsOf(r) = {}) => fresh(r)

\* C24: a step that deletes GameSlot rows (delete_custom_slot with or
\* without force, regenerate_slots_for_game, generation) deletes no slot
\* that has a PENDING, CONFIRMED or IN_PROGRESS booking.
BookedSlotNeverDeleted ==
    [][BagCardinality(slots') < BagCardinality(slots)
          => \A r \in BagToSet(slots) :
                CopiesIn(r, slots') < CopiesIn(r, slots)
                   => ActiveBookingsOf(r) = {}]_vars

\* C26: whatever the generations, custom-slot creations and updates and
\* regenerations so far, every slot has start_time < end_time and no two
\* slots of one date intersect in time.
SlotsNeverOverlap ==
    \A r \in BagToSet(slots) :
        /\ r.start_time < r.end_time
        /\ CopiesIn(r, slots) = 1
        /\ \A q \in BagToSet(slots) :
              (q # r /\ q.date = r.date)
                 => ~(q.start_time < r.end_time /\ r.start_time < q.end_time)

====
